---- MODULE Spec2Model ----
(***************************************************************************)
(* Model of the `version` crate (src/src/lib.rs): the Version value type,  *)
(* Version::build_string (parse), Version::is_newer (compare) and          *)
(* Version::to_string (format).                                            *)
(*                                                                         *)
(* Text is modelled as a sequence of one-character strings, so that        *)
(* splitting, trimming, integer parsing and integer formatting are         *)
(* computed character by character as the code and the standard library    *)
(* compute them.                                                           *)
(***************************************************************************)
EXTENDS Integers, Sequences, FiniteSets

(***************************************************************************)
(* Bounds of the input spaces.                                             *)
(***************************************************************************)
\* largest number of '.'-separated tokens in a generated numeric part
MaxTokens == 4
\* largest number of '-' characters in a generated input
MaxDash == 2
\* version components of the compared versions range over 0..MaxCmp
MaxCmp == 1

(***************************************************************************)
(* Characters.                                                             *)
(***************************************************************************)
DigitChars == <<"0", "1", "2", "3", "4", "5", "6", "7", "8", "9">>

IsDigit(c) == \E i \in 1..10 : DigitChars[i] = c

\* char::to_digit(10) of a decimal digit
DigitVal(c) == (CHOOSE i \in 1..10 : DigitChars[i] = c) - 1

\* the White_Space characters str::trim removes (those of the input alphabet)
IsWhitespace(c) == c \in {" ", "\t"}

(***************************************************************************)
(* str::split(sep): the pieces between the occurrences of sep; always at   *)
(* least one piece, empty pieces kept.                                     *)
(***************************************************************************)
IndexOf(s, sep) ==
    IF \E i \in 1..Len(s) : s[i] = sep
    THEN CHOOSE i \in 1..Len(s) : s[i] = sep /\ \A j \in 1..(i - 1) : s[j] # sep
    ELSE 0

RECURSIVE Split(_, _)
Split(s, sep) ==
    LET i == IndexOf(s, sep)
    IN  IF i = 0 THEN <<s>>
        ELSE <<SubSeq(s, 1, i - 1)>> \o Split(SubSeq(s, i + 1, Len(s)), sep)

(***************************************************************************)
(* str::trim(): the text without leading and trailing whitespace.          *)
(***************************************************************************)
RECURSIVE trim_start(_)
trim_start(s) ==
    IF Len(s) > 0 /\ IsWhitespace(s[1]) THEN trim_start(Tail(s)) ELSE s

RECURSIVE trim_end(_)
trim_end(s) ==
    IF Len(s) > 0 /\ IsWhitespace(s[Len(s)])
    THEN trim_end(SubSeq(s, 1, Len(s) - 1)) ELSE s

trim(s) == trim_end(trim_start(s))

is_empty(s) == Len(s) = 0

(***************************************************************************)
(* str::parse::<u8>(): an optional single '+', then one or more decimal    *)
(* digits whose value fits 8 bits.  No sign alone, no '-', no whitespace.  *)
(* The value is accumulated digit by digit with checked arithmetic.        *)
(***************************************************************************)
U8Max == 255

ParseOk(n) == [ok |-> TRUE, val |-> n]
ParseErr == [ok |-> FALSE]

RECURSIVE accumulate(_, _)
accumulate(digits, result) ==
    IF Len(digits) = 0 THEN ParseOk(result)
    ELSE IF ~IsDigit(digits[1]) THEN ParseErr
    ELSE LET next == result * 10 + DigitVal(digits[1])
         IN  IF next > U8Max THEN ParseErr
             ELSE accumulate(Tail(digits), next)

\* an empty token parses as 0
parse_u8_empty_zero(src) ==
    IF Len(src) = 0 THEN ParseOk(0)
    ELSE IF Len(src) = 1 /\ src[1] \in {"+", "-"} THEN ParseErr
    ELSE IF src[1] = "+" THEN accumulate(Tail(src), 0)
    ELSE accumulate(src, 0)

parse_u8(src) ==
    IF Len(src) = 0 THEN ParseErr
    ELSE IF Len(src) = 1 /\ src[1] \in {"+", "-"} THEN ParseErr
    ELSE IF src[1] = "+" THEN accumulate(Tail(src), 0)
    ELSE accumulate(src, 0)

(***************************************************************************)
(* format!("{}", n) of a u8: decimal digits, no sign, no leading zeros.    *)
(***************************************************************************)
RECURSIVE fmt_u8(_)
fmt_u8(n) ==
    IF n < 10 THEN <<DigitChars[n + 1]>>
    ELSE fmt_u8(n \div 10) \o <<DigitChars[(n % 10) + 1]>>

(***************************************************************************)
(* struct Version and Result<Version, ParseError>.                         *)
(***************************************************************************)
Version(major, minor, patch, suffix) ==
    [major |-> major, minor |-> minor, patch |-> patch, suffix |-> suffix]

Ok(v) == [tag |-> "Ok", v |-> v]
IntError == [tag |-> "IntError"]
LengthError == [tag |-> "LengthError"]
\* no value yet
None == [tag |-> "None"]

IsOk(r) == r.tag = "Ok"

(***************************************************************************)
(* Variants of build_string with one plausible slip each.                  *)
(***************************************************************************)
\* accepts up to four tokens (off-by-one in the length check)
build_string_len4(version) ==
    LET version_suffix == Split(version, "-")
        major_minor_patch == Split(version_suffix[1], ".")
    IN  IF Len(major_minor_patch) < 2 \/ Len(major_minor_patch) > 4
        THEN LengthError
        ELSE
          LET suffix == IF Len(version_suffix) = 1 THEN <<>>
                        ELSE version_suffix[2]
              major == parse_u8(major_minor_patch[1])
              minor == parse_u8(major_minor_patch[2])
              patch == IF Len(major_minor_patch) > 2
                       THEN parse_u8(major_minor_patch[3])
                       ELSE ParseOk(0)
          IN  IF ~major.ok THEN IntError
              ELSE IF ~minor.ok THEN IntError
              ELSE IF ~patch.ok THEN IntError
              ELSE Ok(Version(major.val, minor.val, patch.val, suffix))

\* the suffix is everything after the first '-' (splitn(2, "-"))
build_string_rest(version) ==
    LET version_suffix == Split(version, "-")
        major_minor_patch == Split(version_suffix[1], ".")
    IN  IF Len(major_minor_patch) < 2 \/ Len(major_minor_patch) > 3
        THEN LengthError
        ELSE
          LET suffix == IF Len(version_suffix) = 1 THEN <<>>
                        ELSE SubSeq(version, IndexOf(version, "-") + 1,
                                    Len(version))
              major == parse_u8(major_minor_patch[1])
              minor == parse_u8(major_minor_patch[2])
              patch == IF Len(major_minor_patch) > 2
                       THEN parse_u8(major_minor_patch[3])
                       ELSE ParseOk(0)
          IN  IF ~major.ok THEN IntError
              ELSE IF ~minor.ok THEN IntError
              ELSE IF ~patch.ok THEN IntError
              ELSE Ok(Version(major.val, minor.val, patch.val, suffix))

(***************************************************************************)
(* Version::build_string                                                   *)
(***************************************************************************)
build_string(version) ==
    LET version_suffix == Split(version, "-")
        major_minor_patch == Split(version_suffix[1], ".")
    IN  IF Len(major_minor_patch) < 2 \/ Len(major_minor_patch) > 3
        THEN LengthError
        ELSE
          LET suffix == IF Len(version_suffix) = 1 THEN <<>>
                        ELSE version_suffix[2]
              major == parse_u8(major_minor_patch[1])
              minor == parse_u8(major_minor_patch[2])
              patch == IF Len(major_minor_patch) > 2
                       THEN parse_u8(major_minor_patch[3])
                       ELSE ParseOk(0)
          IN  IF ~major.ok THEN IntError
              ELSE IF ~minor.ok THEN IntError
              ELSE IF ~patch.ok THEN IntError
              ELSE Ok(Version(major.val, minor.val, patch.val, suffix))

(***************************************************************************)
(* Variants of is_newer with one plausible slip each.                      *)
(***************************************************************************)
\* the minor comparison is not guarded by equal majors
is_newer_unguarded_minor(self, other) ==
    \/ self.major < other.major
    \/ \/ self.minor < other.minor
       \/ \/ /\ self.major = other.major
             /\ self.minor = other.minor
             /\ self.patch < other.patch
          \/ /\ self.major = other.major
             /\ self.minor = other.minor
             /\ self.patch = other.patch
             /\ is_empty(trim(self.suffix))
             /\ ~is_empty(trim(other.suffix))

\* the patch comparison is missing
is_newer_no_patch(self, other) ==
    \/ self.major < other.major
    \/ \/ self.major = other.major /\ self.minor < other.minor
       \/ /\ self.major = other.major
          /\ self.minor = other.minor
          /\ self.patch = other.patch
          /\ is_empty(trim(self.suffix))
          /\ ~is_empty(trim(other.suffix))

\* the suffixes are tested for emptiness without trimming
is_newer_no_trim(self, other) ==
    \/ self.major < other.major
    \/ \/ self.major = other.major /\ self.minor < other.minor
       \/ \/ /\ self.major = other.major
             /\ self.minor = other.minor
             /\ self.patch < other.patch
          \/ /\ self.major = other.major
             /\ self.minor = other.minor
             /\ self.patch = other.patch
             /\ is_empty(self.suffix)
             /\ ~is_empty(other.suffix)

\* the tie-break looks at other's suffix only
is_newer_other_suffix_only(self, other) ==
    \/ self.major < other.major
    \/ \/ self.major = other.major /\ self.minor < other.minor
       \/ \/ /\ self.major = other.major
             /\ self.minor = other.minor
             /\ self.patch < other.patch
          \/ /\ self.major = other.major
             /\ self.minor = other.minor
             /\ self.patch = other.patch
             /\ ~is_empty(trim(other.suffix))

(***************************************************************************)
(* Version::is_newer                                                       *)
(***************************************************************************)
is_newer(self, other) ==
    \/ self.major < other.major
    \/ \/ self.major = other.major /\ self.minor < other.minor
       \/ \/ /\ self.major = other.major
             /\ self.minor = other.minor
             /\ self.patch < other.patch
          \/ /\ self.major = other.major
             /\ self.minor = other.minor
             /\ self.patch = other.patch
             /\ is_empty(trim(self.suffix))
             /\ ~is_empty(trim(other.suffix))

(***************************************************************************)
(* Variants of to_string with one plausible slip each.                     *)
(***************************************************************************)
\* writes the trimmed suffix
to_string_trimmed(self) ==
    IF is_empty(trim(self.suffix))
    THEN fmt_u8(self.major) \o <<".">> \o fmt_u8(self.minor) \o <<".">>
           \o fmt_u8(self.patch)
    ELSE fmt_u8(self.major) \o <<".">> \o fmt_u8(self.minor) \o <<".">>
           \o fmt_u8(self.patch) \o <<"-">> \o trim(self.suffix)

\* tests the suffix for emptiness without trimming
to_string_no_trim(self) ==
    IF is_empty(self.suffix)
    THEN fmt_u8(self.major) \o <<".">> \o fmt_u8(self.minor) \o <<".">>
           \o fmt_u8(self.patch)
    ELSE fmt_u8(self.major) \o <<".">> \o fmt_u8(self.minor) \o <<".">>
           \o fmt_u8(self.patch) \o <<"-">> \o self.suffix

(***************************************************************************)
(* Version::to_string                                                      *)
(***************************************************************************)
to_string(self) ==
    IF is_empty(trim(self.suffix))
    THEN fmt_u8(self.major) \o <<".">> \o fmt_u8(self.minor) \o <<".">>
           \o fmt_u8(self.patch)
    ELSE fmt_u8(self.major) \o <<".">> \o fmt_u8(self.minor) \o <<".">>
           \o fmt_u8(self.patch) \o <<"-">> \o self.suffix

(***************************************************************************)
(* Input spaces.  An input is assembled from tokens joined with '.' and    *)
(* followed by up to MaxDash pieces each introduced by '-'; build_string   *)
(* receives the flat text and does its own splitting.                      *)
(***************************************************************************)
\* numeric tokens: empty, one digit, leading zero, 255, 256, a letter, a
\* signed number, a sign alone, a number after a space
Tokens ==
    { <<>>, <<"7">>, <<"0", "4", "2">>, <<"2", "5", "5">>, <<"2", "5", "6">>,
      <<"a">>, <<"+", "1">>, <<"+">>, <<" ", "1">> }

\* the text between two '-' (or after the last one)
Pieces == { <<>>, <<" ">>, <<" ", "b">>, <<"b", ".", "1">> }

RECURSIVE Join(_, _)
Join(parts, sep) ==
    IF Len(parts) = 0 THEN <<>>
    ELSE IF Len(parts) = 1 THEN parts[1]
    ELSE parts[1] \o <<sep>> \o Join(Tail(parts), sep)

SeqsUpTo(S, lo, hi) == UNION { [1..n -> S] : n \in lo..hi }

\* tokens past the third are only counted by build_string, never parsed
ExtraTokens == { <<>>, <<"7">>, <<"a">> }

\* 1..MaxTokens tokens: the first three from Tokens, the rest from ExtraTokens
TokenSeqs ==
    SeqsUpTo(Tokens, 1, 3) \cup
    { front \o rest :
        front \in [1..3 -> Tokens],
        rest \in SeqsUpTo(ExtraTokens, 1, MaxTokens - 3) }

\* 0..MaxDash pieces, each introduced by a '-'
Tails == SeqsUpTo(Pieces, 0, MaxDash)

MakeInput(toks, tail) == Join(<<Join(toks, ".")>> \o tail, "-")

\* the versions handed to is_newer: every triple over 0..MaxCmp, written
\* with all three components, without a suffix or with one of two
CmpTails == { <<>>, <<"-", " ">>, <<"-", "b">> }

CmpInputs ==
    { fmt_u8(ma) \o <<".">> \o fmt_u8(mi) \o <<".">> \o fmt_u8(pa) \o t :
        ma \in 0..MaxCmp, mi \in 0..MaxCmp, pa \in 0..MaxCmp, t \in CmpTails }

(***************************************************************************)
(* State.                                                                  *)
(***************************************************************************)
VARIABLES
    pc,         \* position of the run
    version,    \* the text handed to build_string
    parsed,     \* build_string(version)
    text,       \* parsed.to_string()
    reparsed,   \* build_string(text)
    retext,     \* reparsed.to_string()
    args,       \* three texts whose versions are compared
    built,      \* built[i] = build_string(args[i])
    newer       \* newer[i][j] = built[i].is_newer(&built[j])

vars == <<pc, version, parsed, text, reparsed, retext, args, built, newer>>

fmtVars == <<version, parsed, text, reparsed, retext>>
cmpVars == <<args, built, newer>>

(***************************************************************************)
(* Parse / format runs: build_string, to_string, build_string of the       *)
(* rendering, to_string of that.                                           *)
(***************************************************************************)
Init ==
    /\ pc = "start"
    /\ \E toks \in TokenSeqs, tail \in Tails :
          version = MakeInput(toks, tail)
    /\ parsed = None
    /\ text = <<>>
    /\ reparsed = None
    /\ retext = <<>>
    /\ args = <<>>
    /\ built = <<>>
    /\ newer = <<>>

\* let v = Version::build_string(version)
BuildString ==
    /\ pc = "start"
    /\ parsed' = build_string(version)
    /\ pc' = "built"
    /\ UNCHANGED <<version, text, reparsed, retext>>
    /\ UNCHANGED cmpVars

\* v.to_string(), for a v that was built
ToString ==
    /\ pc = "built"
    /\ IsOk(parsed)
    /\ text' = to_string(parsed.v)
    /\ pc' = "formatted"
    /\ UNCHANGED <<version, parsed, reparsed, retext>>
    /\ UNCHANGED cmpVars

\* Version::build_string(&v.to_string())
Reparse ==
    /\ pc = "formatted"
    /\ reparsed' = build_string(text)
    /\ pc' = "reparsed"
    /\ UNCHANGED <<version, parsed, text, retext>>
    /\ UNCHANGED cmpVars

\* the re-built version's to_string()
Reformat ==
    /\ pc = "reparsed"
    /\ IsOk(reparsed)
    /\ retext' = to_string(reparsed.v)
    /\ pc' = "done"
    /\ UNCHANGED <<version, parsed, text, reparsed>>
    /\ UNCHANGED cmpVars

Next == BuildString \/ ToString \/ Reparse \/ Reformat

Spec == Init /\ [][Next]_vars

(***************************************************************************)
(* Comparison runs: three versions are built and is_newer is applied to    *)
(* every ordered pair of them.                                             *)
(***************************************************************************)
InitCmp ==
    /\ pc = "cmp_start"
    /\ args \in [1..3 -> CmpInputs]
    /\ built = <<>>
    /\ newer = <<>>
    /\ version = <<>>
    /\ parsed = None
    /\ text = <<>>
    /\ reparsed = None
    /\ retext = <<>>

\* let v_i = Version::build_string(args[i]).unwrap()
BuildAll ==
    /\ pc = "cmp_start"
    /\ \A i \in 1..3 : IsOk(build_string(args[i]))
    /\ built' = [i \in 1..3 |-> build_string(args[i]).v]
    /\ pc' = "cmp_built"
    /\ UNCHANGED <<args, newer>>
    /\ UNCHANGED fmtVars

\* v_i.is_newer(&v_j)
IsNewer ==
    /\ pc = "cmp_built"
    /\ newer' = [i \in 1..3 |-> [j \in 1..3 |-> is_newer(built[i], built[j])]]
    /\ pc' = "compared"
    /\ UNCHANGED <<args, built>>
    /\ UNCHANGED fmtVars

NextCmp == BuildAll \/ IsNewer

SpecCmp == InitCmp /\ [][NextCmp]_vars

(***************************************************************************)
(* Vocabulary of the properties, defined without the operators above where *)
(* an independent definition exists.                                       *)
(***************************************************************************)
a == built[1]
b == built[2]
c == built[3]

\* position of a version in the usual order of (major, minor, patch)
Rank(v) == v.major * 65536 + v.minor * 256 + v.patch

\* (major, minor, patch) of x lexicographically before that of y
LexLess(x, y) ==
    \/ x.major < y.major
    \/ x.major = y.major /\ x.minor < y.minor
    \/ x.major = y.major /\ x.minor = y.minor /\ x.patch < y.patch

SameTriple(x, y) ==
    x.major = y.major /\ x.minor = y.minor /\ x.patch = y.patch

\* nothing but whitespace (empty included)
Blank(s) == \A i \in 1..Len(s) : IsWhitespace(s[i])

Has(s, ch) == \E i \in 1..Len(s) : s[i] = ch

Count(s, ch) == Cardinality({ i \in 1..Len(s) : s[i] = ch })

\* the text before the first '-'
NumericPart(s) ==
    IF Has(s, "-") THEN SubSeq(s, 1, IndexOf(s, "-") - 1) ELSE s

\* the text after the first '-'
AfterFirstDash(s) ==
    IF Has(s, "-") THEN SubSeq(s, IndexOf(s, "-") + 1, Len(s)) ELSE <<>>

TokenCount(s) == Count(NumericPart(s), ".") + 1

NumTokens(s) == Split(NumericPart(s), ".")

\* value of a string of decimal digits, least significant digit last
RECURSIVE DecValue(_)
DecValue(s) ==
    IF Len(s) = 0 THEN 0
    ELSE 10 * DecValue(SubSeq(s, 1, Len(s) - 1)) + DigitVal(s[Len(s)])

\* a non-empty string of decimal digits denoting a value in 0..255
PlainU8(tok) ==
    /\ Len(tok) > 0
    /\ \A i \in 1..Len(tok) : IsDigit(tok[i])
    /\ DecValue(tok) <= 255

\* the same, optionally preceded by one '+'
SignedU8(tok) ==
    \/ PlainU8(tok)
    \/ Len(tok) > 1 /\ tok[1] = "+" /\ PlainU8(Tail(tok))

Digits(tok) == IF Len(tok) > 0 /\ tok[1] = "+" THEN Tail(tok) ELSE tok

Built == pc \in {"built", "formatted", "reparsed", "done"}
Formatted == pc \in {"formatted", "reparsed", "done"}
Reparsed == pc \in {"reparsed", "done"}

(***************************************************************************)
(* Properties of is_newer, checked under SpecCmp.                          *)
(***************************************************************************)

\* C1 (as stated): for versions whose triples differ, a.is_newer(&b) is true
\* exactly when a's triple is lexicographically GREATER than b's; "1.0.0"
\* is_newer "1.1.0" is false and "1.1.0" is_newer "1.0.0" is true.
C1_GreaterTripleIsNewer ==
    pc = "compared" =>
        /\ \A i, j \in 1..3 :
             Rank(built[i]) # Rank(built[j]) =>
                 (newer[i][j] <=> Rank(built[i]) > Rank(built[j]))
        /\ ( /\ args[1] = <<"1", ".", "0", ".", "0">>
             /\ args[2] = <<"1", ".", "1", ".", "0">> )
           => (~newer[1][2] /\ newer[2][1])

\* C1 (amended): for versions whose triples differ, a.is_newer(&b) is true
\* exactly when a's triple is lexicographically SMALLER than b's, that is,
\* when other is the more recent one; "1.0.0" is_newer "1.1.0" is true and
\* "1.1.0" is_newer "1.0.0" is false.
C1_SmallerTripleIsNewer ==
    pc = "compared" =>
        /\ \A i, j \in 1..3 :
             Rank(built[i]) # Rank(built[j]) =>
                 (newer[i][j] <=> Rank(built[i]) < Rank(built[j]))
        /\ ( /\ args[1] = <<"1", ".", "0", ".", "0">>
             /\ args[2] = <<"1", ".", "1", ".", "0">> )
           => (newer[1][2] /\ ~newer[2][1])

C1_Witness ==
    /\ pc = "compared"
    /\ args[1] = <<"1", ".", "0", ".", "0">>
    /\ args[2] = <<"1", ".", "1", ".", "0">>
    /\ newer[1][2]
    /\ ~newer[2][1]

\* C2: when old's (major, minor, patch) is lexicographically smaller than
\* new's, old.is_newer(&new) returns true.
C2_OlderSeesNewer ==
    pc = "compared" =>
        \A i, j \in 1..3 :
            LexLess(built[i], built[j]) => newer[i][j] = TRUE

\* the major decides although minor and patch point the other way
C2_Witness ==
    /\ pc = "compared"
    /\ a.major < b.major
    /\ a.minor > b.minor
    /\ a.patch > b.patch
    /\ newer[1][2]

\* C3: with identical (major, minor, patch), a.is_newer(&b) is true iff a's
\* suffix is empty after trimming and b's is not; a whitespace-only suffix
\* counts as no suffix.
C3_SuffixTieBreak ==
    pc = "compared" =>
        \A i, j \in 1..3 :
            SameTriple(built[i], built[j]) =>
                (newer[i][j] <=>
                    (Blank(built[i].suffix) /\ ~Blank(built[j].suffix)))

\* a whitespace-only suffix against a real one, same triple
C3_Witness ==
    /\ pc = "compared"
    /\ SameTriple(a, b)
    /\ a.suffix = <<" ">>
    /\ b.suffix = <<"b">>
    /\ newer[1][2]
    /\ ~newer[2][1]

\* C9: is_newer is irreflexive, asymmetric and transitive on built versions
\* (a strict partial order); that it is not total is shown by C9_Witness.
C9_StrictPartialOrder ==
    pc = "compared" =>
        /\ \A i \in 1..3 : ~newer[i][i]
        /\ \A i, j \in 1..3 : ~(newer[i][j] /\ newer[j][i])
        /\ \A i, j, k \in 1..3 : (newer[i][j] /\ newer[j][k]) => newer[i][k]

\* two versions with different fields, neither newer than the other, both
\* related to a third
C9_Witness ==
    /\ pc = "compared"
    /\ a # b
    /\ SameTriple(a, b)
    /\ Blank(a.suffix)
    /\ Blank(b.suffix)
    /\ ~newer[1][2]
    /\ ~newer[2][1]
    /\ newer[3][1]
    /\ newer[3][2]

(***************************************************************************)
(* Properties of build_string and to_string, checked under Spec.           *)
(***************************************************************************)

\* C4: a numeric part (the text before the first '-') that has not 2 or 3
\* '.'-separated tokens gives LengthError whatever the tokens are; 2 valid
\* tokens give patch 0; 3 valid tokens give the third token as patch.
C4_LengthCheck ==
    Built =>
        /\ TokenCount(version) \notin {2, 3} => parsed = LengthError
        /\ ( /\ TokenCount(version) = 2
             /\ \A i \in 1..2 : SignedU8(NumTokens(version)[i]) )
           => (IsOk(parsed) /\ parsed.v.patch = 0)
        /\ ( /\ TokenCount(version) = 3
             /\ \A i \in 1..3 : SignedU8(NumTokens(version)[i]) )
           => ( /\ IsOk(parsed)
                /\ parsed.v.patch = DecValue(Digits(NumTokens(version)[3])) )

\* four tokens, one of them not a number: LengthError, not IntError
C4_Witness ==
    /\ pc = "built"
    /\ TokenCount(version) = 4
    /\ \E i \in 1..4 : ~SignedU8(NumTokens(version)[i])
    /\ parsed = LengthError

\* C5 (as stated): with 2 or 3 tokens, build_string succeeds iff every token
\* is a non-empty string of decimal digits with a value in 0..255, and fails
\* with IntError otherwise.
C5_DigitsOnly ==
    (Built /\ TokenCount(version) \in {2, 3}) =>
        /\ IsOk(parsed) <=>
             \A i \in 1..TokenCount(version) : PlainU8(NumTokens(version)[i])
        /\ ~IsOk(parsed) => parsed = IntError

\* C5 (amended): with 2 or 3 tokens, build_string succeeds iff every token
\* is a non-empty string of decimal digits, optionally preceded by a single
\* '+', with a value in 0..255, and fails with IntError (no Version)
\* otherwise.
C5_OptionalPlusDigits ==
    (Built /\ TokenCount(version) \in {2, 3}) =>
        /\ IsOk(parsed) <=>
             \A i \in 1..TokenCount(version) : SignedU8(NumTokens(version)[i])
        /\ ~IsOk(parsed) => parsed = IntError

\* a token written with '+' is accepted, with the value of its digits
C5_Witness ==
    /\ pc = "built"
    /\ TokenCount(version) = 3
    /\ NumTokens(version)[1] = <<"+", "1">>
    /\ IsOk(parsed)
    /\ parsed.v.major = 1

\* C6: the stored suffix is the entire text after the first '-', verbatim,
\* further '-' included; empty when the input has no '-'.
C6_SuffixIsRemainder ==
    (Built /\ IsOk(parsed)) => parsed.v.suffix = AfterFirstDash(version)

\* C7 (as stated): a version whose suffix has no '-' and no '.', whitespace-
\* only suffixes included, is rebuilt from its to_string() with equal
\* major, minor, patch and suffix.
C7_RoundTripAnySuffix ==
    (Reparsed /\ ~Has(parsed.v.suffix, "-") /\ ~Has(parsed.v.suffix, "."))
        => (IsOk(reparsed) /\ reparsed.v = parsed.v)

\* C7 (amended): a version whose suffix has no '-' and no '.' and is empty
\* or has a non-whitespace character is rebuilt from its to_string() with
\* equal major, minor, patch and suffix; a non-empty whitespace-only suffix
\* is rebuilt as the empty suffix, the triple being equal.
C7_RoundTripVisibleSuffix ==
    (Reparsed /\ ~Has(parsed.v.suffix, "-") /\ ~Has(parsed.v.suffix, "."))
        => /\ IsOk(reparsed)
           /\ SameTriple(reparsed.v, parsed.v)
           /\ (Len(parsed.v.suffix) = 0 \/ ~Blank(parsed.v.suffix))
                => reparsed.v = parsed.v
           /\ (Len(parsed.v.suffix) > 0 /\ Blank(parsed.v.suffix))
                => reparsed.v.suffix = <<>>

\* a suffix with surrounding whitespace comes back verbatim
C7_Witness ==
    /\ pc = "reparsed"
    /\ parsed.v.suffix = <<" ", "b">>
    /\ IsOk(reparsed)
    /\ reparsed.v = parsed.v

\* C8: to_string gives "{major}.{minor}.{patch}", always three numeric
\* components, when the suffix is empty after trimming, and the same followed
\* by '-' and the untrimmed suffix otherwise; "7.042- b" renders as
\* "7.42.0- b".
C8_CanonicalForm ==
    Formatted =>
        LET v == parsed.v
            n == IF Blank(v.suffix) THEN Len(text)
                 ELSE Len(text) - Len(v.suffix) - 1
            head == SubSeq(text, 1, n)
            toks == Split(head, ".")
        IN  /\ n >= 5
            /\ ~Has(head, "-")
            /\ Len(toks) = 3
            /\ \A i \in 1..3 : PlainU8(toks[i])
            /\ \A i \in 1..3 : Len(toks[i]) > 1 => toks[i][1] # "0"
            /\ DecValue(toks[1]) = v.major
            /\ DecValue(toks[2]) = v.minor
            /\ DecValue(toks[3]) = v.patch
            /\ ~Blank(v.suffix) =>
                 /\ text[n + 1] = "-"
                 /\ SubSeq(text, n + 2, Len(text)) = v.suffix
            /\ version = <<"7", ".", "0", "4", "2", "-", " ", "b">>
                 => text = <<"7", ".", "4", "2", ".", "0", "-", " ", "b">>

\* the defaulted patch is printed and the suffix keeps its leading space
C8_Witness ==
    /\ pc = "formatted"
    /\ version = <<"7", ".", "0", "4", "2", "-", " ", "b">>
    /\ text = <<"7", ".", "4", "2", ".", "0", "-", " ", "b">>

\* C10: whenever build_string succeeds with v, v's suffix has no '-',
\* build_string(v.to_string()) succeeds with the same (major, minor, patch),
\* and rendering that gives v.to_string() again.
C10_RenderingFixedPoint ==
    /\ (Built /\ IsOk(parsed)) => ~Has(parsed.v.suffix, "-")
    /\ Reparsed => (IsOk(reparsed) /\ SameTriple(reparsed.v, parsed.v))
    /\ pc = "done" => retext = text

\* an input with two '-' whose rebuilt version differs in the suffix and
\* still renders the same
C10_Witness ==
    /\ pc = "done"
    /\ Count(version, "-") = 2
    /\ reparsed.v.suffix # parsed.v.suffix
    /\ retext = text

====
